---- MODULE Spec2Model ----
(***************************************************************************)
(* Brand-health-index: the Reddit fetcher's cursor store, incremental      *)
(* poller, term matcher and record normalizers, and the CFPB normalizer.   *)
(*                                                                         *)
(* Strings that the code indexes or compares are sequences of one-         *)
(* character strings (a Python str "TD" is <<"T","D">>).  Times are epoch  *)
(* seconds; a naive datetime is the number of seconds its calendar fields  *)
(* denote when read as UTC.                                                *)
(***************************************************************************)
EXTENDS Integers, Sequences, FiniteSets, TLC

VARIABLES
    now,          \* wall clock, epoch seconds
    tz,           \* UTC offset of the process's local time zone, seconds
    upstream,     \* Reddit: the submissions and comments that exist
    ingest_state, \* BigQuery table ingest_state: a set of rows
    poll,         \* per poller: the locals of fetch_incremental_posts_and_comments
    runs,         \* number of polls started so far
    normalized,   \* records produced by the normalizers (event-identity runs)
    matcher,      \* Term Matcher: alias table, text, and what the calls returned
    sink,         \* the bucket: every upload made, in order, and the uuid4 draws
    jobs,         \* the runs of the fetchers' entry points started so far
    nlp,          \* NLP enrichment: the batch, the service's answers, the result
    limiter,      \* Reddit fetcher's _rate_limit: its counters and the requests issued
    glassdoor     \* the locals of GlassdoorAPIFetcher.get_company_reviews

vars == <<now, tz, upstream, ingest_state, poll, runs, normalized, matcher, sink, jobs,
          nlp, limiter, glassdoor>>

-----------------------------------------------------------------------------
(* Bounds of the model *)

MaxItems == 2

MaxTicks == 2

MaxPolls == 2
MaxOverlapRuns == 3

MaxNormalized == 3

MaxTokens == 3

MaxCalls == 2

\* runs of the entry points that write to the bucket
MaxSinkRuns == 2

-----------------------------------------------------------------------------
(* Python values *)

\* None where an int is expected (since_timestamp: Optional[int])
NoneInt == -1

\* None where a native id / tie-breaker string is expected
NoneStr == <<"None">>

\* None where a cursor_iso string is expected
NoneIso == [is_none |-> TRUE, naive |-> 0]

\* Python truthiness of an Optional[int]: None and 0 are falsy
Truthy(x) == x # NoneInt /\ x # 0

Max(a, b) == IF a >= b THEN a ELSE b

Min(a, b) == IF a <= b THEN a ELSE b

-----------------------------------------------------------------------------
(* datetime *)

\* datetime.fromtimestamp(t): the naive LOCAL datetime of epoch second t
FromTimestamp(t, offset) == t + offset

\* naive.timestamp(): a naive datetime is taken to be local time
NaiveTimestamp(naive, offset) == naive - offset

\* naive.isoformat() + 'Z'
IsoFormatZ(naive) == [is_none |-> FALSE, naive |-> naive]

\* datetime.fromisoformat(s.replace('Z', '+00:00')).timestamp(): aware, UTC
ParseIsoZTimestamp(iso) == iso.naive

\* datetime.utcnow(): the naive UTC datetime of the clock
UtcNow(clock) == clock

Reverse(s) == [i \in 1..Len(s) |-> s[Len(s) + 1 - i]]

-----------------------------------------------------------------------------
(* Configuration: brand alias table *)

s_TD_Bank == <<"T","D"," ","B","a","n","k">>

s_TD == <<"T","D">>

s_Citi == <<"C","i","t","i">>

\* FINANCIAL_BRANDS, in dict order: the one brand of the table with the first
\* of its official names and the first of its abbreviations
FINANCIAL_BRANDS == << [brand_id |-> "td_bank", terms |-> <<s_TD_Bank, s_TD>>] >>

\* a table of two brands, in both dict orders: the second brand and its alias
\* are the Twitter fetcher's 'c': [..., 'Citi', ...]
TwoBrands ==
    << [brand_id |-> "td_bank", terms |-> <<s_TD_Bank, s_TD>>],
       [brand_id |-> "c", terms |-> <<s_Citi>>] >>

AliasTables == {FINANCIAL_BRANDS, TwoBrands, Reverse(TwoBrands)}

-----------------------------------------------------------------------------
(* str methods *)

UpperChars == <<"A","B","C","D","E","F","G","H","I","J","K","L","M",
                "N","O","P","Q","R","S","T","U","V","W","X","Y","Z">>

LowerChars == <<"a","b","c","d","e","f","g","h","i","j","k","l","m",
                "n","o","p","q","r","s","t","u","v","w","x","y","z">>

DigitChars == <<"0","1","2","3","4","5","6","7","8","9">>

Range(f) == {f[i] : i \in DOMAIN f}

\* c.lower() for one character
LowerChar(c) ==
    IF c \in Range(UpperChars)
    THEN LowerChars[CHOOSE i \in 1..Len(UpperChars) : UpperChars[i] = c]
    ELSE c

\* text.lower()
Lower(text) == [i \in 1..Len(text) |-> LowerChar(text[i])]

\* c.isalnum()
IsAlnum(c) == c \in Range(UpperChars) \cup Range(LowerChars) \cup Range(DigitChars)

IsSpace(c) == c \in {" ", "\n", "\t"}

\* text.strip()
RECURSIVE Strip(_)
Strip(text) ==
    IF Len(text) = 0 THEN text
    ELSE IF IsSpace(Head(text)) THEN Strip(Tail(text))
    ELSE IF IsSpace(text[Len(text)]) THEN Strip(SubSeq(text, 1, Len(text) - 1))
    ELSE text

\* text.find(sub, start): lowest 0-based index >= start, or -1
Find(text, sub, start) ==
    LET hits == {i \in start..(Len(text) - Len(sub)) :
                    SubSeq(text, i + 1, i + Len(sub)) = sub}
    IN IF hits = {} THEN -1 ELSE CHOOSE i \in hits : \A j \in hits : i <= j

\* Python's str comparison a > b: lexicographic on code points
CharOrder ==
    <<" ", "'", "-", ".">> \o DigitChars \o <<"@">> \o UpperChars
       \o <<"_">> \o LowerChars

Ord(c) == CHOOSE i \in 1..Len(CharOrder) : CharOrder[i] = c

RECURSIVE StrGT(_, _)
StrGT(a, b) ==
    IF Len(a) = 0 THEN FALSE
    ELSE IF Len(b) = 0 THEN TRUE
    ELSE IF Ord(Head(a)) # Ord(Head(b)) THEN Ord(Head(a)) > Ord(Head(b))
    ELSE StrGT(Tail(a), Tail(b))

\* the strings of a set in ascending order
RECURSIVE Ascending(_)
Ascending(S) ==
    IF S = {} THEN << >>
    ELSE LET least == CHOOSE t \in S : \A o \in S : ~StrGT(t, o)
         IN << least >> \o Ascending(S \ {least})

\* list(set(...)) of strings: the order follows the strings' hashes, which the
\* interpreter salts anew in every process; two of the orders it can produce
HashSeeds == {0, 1}

ListOfSet(S, hash_seed) ==
    IF hash_seed = 0 THEN Ascending(S) ELSE Reverse(Ascending(S))

-----------------------------------------------------------------------------
(* Term Matcher: IdempotentRedditFetcher.detect_brand_mentions *)

\* A confidence is the exact rational num/den of the float the code computes.
ZeroConfidence == [num |-> 0, den |-> 1]

ConfGT(a, b) == a.num * b.den > b.num * a.den

\* a faulty acceptance check with the threshold at 0.5: C30 has to tell it from
\* AboveThreshold
AboveThreshold_Half(c) == c.num * 10 > 5 * c.den

\* confidence > 0.3
AboveThreshold(c) == c.num * 10 > 3 * c.den

\* a faulty boundary check that looks at the occurrence's own first character
\* instead of the one before it: C13 has to tell it from IsWordBoundary
IsWordBoundary_OffByOne(text_lower, pos, term_len) ==
    /\ ~(pos > 0 /\ IsAlnum(text_lower[pos + 1]))
    /\ ~(pos + term_len < Len(text_lower) /\ IsAlnum(text_lower[pos + term_len + 1]))

\* the word-boundary check of one occurrence at 0-based pos
IsWordBoundary(text_lower, pos, term_len) ==
    /\ ~(pos > 0 /\ IsAlnum(text_lower[pos]))
    /\ ~(pos + term_len < Len(text_lower) /\ IsAlnum(text_lower[pos + term_len + 1]))

\* a faulty loop that keeps a short term's occurrence inside a longer token
\* (with confidence 0.7): C11 has to tell it from TermOccurrences
RECURSIVE TermOccurrences_KeepShort(_, _, _)
TermOccurrences_KeepShort(text_lower, term, start_pos) ==
    LET term_lower == Lower(term)
        pos == Find(text_lower, term_lower, start_pos)
    IN IF pos = -1 THEN << >>
       ELSE LET is_word_boundary == IsWordBoundary(text_lower, pos, Len(term_lower))
                match_info == [term |-> term, position |-> pos, length |-> Len(term),
                               word_boundary |-> is_word_boundary,
                               confidence10 |-> IF is_word_boundary THEN 10 ELSE 7]
            IN << match_info >> \o TermOccurrences_KeepShort(text_lower, term, pos + 1)

\* the while-loop over the occurrences of one term, from start_pos on
RECURSIVE TermOccurrences(_, _, _)
TermOccurrences(text_lower, term, start_pos) ==
    LET term_lower == Lower(term)
        pos == Find(text_lower, term_lower, start_pos)
    IN IF pos = -1 THEN << >>
       ELSE LET is_word_boundary == IsWordBoundary(text_lower, pos, Len(term_lower))
                match_info == [term |-> term, position |-> pos, length |-> Len(term),
                               word_boundary |-> is_word_boundary,
                               confidence10 |-> IF is_word_boundary THEN 10 ELSE 7]
            IN (IF Len(term_lower) <= 3 /\ ~is_word_boundary
                THEN << >> ELSE << match_info >>)
               \o TermOccurrences(text_lower, term, pos + 1)

\* brand_positions of one brand: the loop over its terms from index i on
RECURSIVE BrandPositions(_, _, _)
BrandPositions(text_lower, terms, i) ==
    IF i > Len(terms) THEN << >>
    ELSE TermOccurrences(text_lower, terms[i], 0)
         \o BrandPositions(text_lower, terms, i + 1)

RECURSIVE SumSeq(_)
SumSeq(s) == IF Len(s) = 0 THEN 0 ELSE Head(s) + SumSeq(Tail(s))

RECURSIVE SumLen(_)
SumLen(S) ==
    IF S = {} THEN 0
    ELSE LET t == CHOOSE t \in S : TRUE IN Len(t) + SumLen(S \ {t})

\* a faulty blend whose diversity bonus counts occurrences instead of distinct
\* terms: C15 has to tell it from BrandConfidence
BrandConfidence_CountsOccurrences(brand_positions) ==
    LET unique_matches == {brand_positions[k].term : k \in DOMAIN brand_positions}
        u  == Cardinality(unique_matches)
        P  == Len(brand_positions)
        S  == SumSeq([k \in DOMAIN brand_positions |-> brand_positions[k].confidence10])
        L  == SumLen(unique_matches)
    IN [num |-> 40 * Min(3, P) * P * u + 12 * S * u + 6 * Min(10 * u, L) * P,
        den |-> 300 * P * u]

\* the blend 0.4*min(1, u/3) + 0.4*avg_confidence + 0.2*min(1, specificity/10)
\* over the common denominator 300 * P * u
BrandConfidence(brand_positions) ==
    LET unique_matches == {brand_positions[k].term : k \in DOMAIN brand_positions}
        u  == Cardinality(unique_matches)
        P  == Len(brand_positions)
        S  == SumSeq([k \in DOMAIN brand_positions |-> brand_positions[k].confidence10])
        L  == SumLen(unique_matches)
    IN [num |-> 40 * Min(3, u) * P * u + 12 * S * u + 6 * Min(10 * u, L) * P,
        den |-> 300 * P * u]

NoDetection ==
    [brand_id |-> "None", matched_terms |-> << >>, match_positions |-> << >>,
     confidence_score |-> ZeroConfidence]

\* a faulty loop in which every brand with matches replaces the result, without
\* comparing confidences: C14 has to tell it from DetectFrom
RECURSIVE DetectFrom_LastWins(_, _, _, _, _)
DetectFrom_LastWins(alias_table, hash_seed, text_lower, i, results) ==
    IF i > Len(alias_table) THEN results
    ELSE LET brand == alias_table[i]
             brand_positions == BrandPositions(text_lower, brand.terms, 1)
             unique_matches ==
                 ListOfSet({brand_positions[k].term : k \in DOMAIN brand_positions},
                           hash_seed)
             confidence == BrandConfidence(brand_positions)
         IN IF Len(brand_positions) > 0
            THEN DetectFrom_LastWins(alias_table, hash_seed, text_lower, i + 1,
                     [brand_id |-> brand.brand_id,
                      matched_terms |-> unique_matches,
                      match_positions |-> brand_positions,
                      confidence_score |-> confidence])
            ELSE DetectFrom_LastWins(alias_table, hash_seed, text_lower, i + 1, results)

\* the loop over the brands of the alias table from index i on, results being
\* the best so far
RECURSIVE DetectFrom(_, _, _, _, _)
DetectFrom(alias_table, hash_seed, text_lower, i, results) ==
    IF i > Len(alias_table) THEN results
    ELSE LET brand == alias_table[i]
             brand_positions == BrandPositions(text_lower, brand.terms, 1)
             unique_matches ==
                 ListOfSet({brand_positions[k].term : k \in DOMAIN brand_positions},
                           hash_seed)
             confidence == BrandConfidence(brand_positions)
         IN IF Len(brand_positions) > 0 /\ ConfGT(confidence, results.confidence_score)
            THEN DetectFrom(alias_table, hash_seed, text_lower, i + 1,
                     [brand_id |-> brand.brand_id,
                      matched_terms |-> unique_matches,
                      match_positions |-> brand_positions,
                      confidence_score |-> confidence])
            ELSE DetectFrom(alias_table, hash_seed, text_lower, i + 1, results)

\* detect_brand_mentions, the module's FINANCIAL_BRANDS and the process's hash
\* seed being inputs
DetectBrandMentions(alias_table, hash_seed, text) ==
    IF Len(text) = 0 \/ Len(Strip(text)) < 2 THEN NoDetection
    ELSE DetectFrom(alias_table, hash_seed, Lower(text), 1, NoDetection)

\* detect_brand_mentions in a process of the Reddit fetcher
detect_brand_mentions(text) == DetectBrandMentions(FINANCIAL_BRANDS, 0, text)

-----------------------------------------------------------------------------
(* Configuration of the poller *)

\* the subreddit the pollers of this model poll (one of RELEVANT_SUBREDDITS)
Subreddits == {"TDBank"}

\* another of RELEVANT_SUBREDDITS, polled by other invocations
OtherSubreddit == "banking"

\* overlap window (2 hours for clock skew tolerance)
overlap_seconds == 2 * 3600

\* timedelta(days=7)
LookbackSeconds == 7 * 86400

\* the two pollers that may run at once (two overlapping invocations)
Pollers == {1, 2}

\* the clock of the first state and the step of the clock
Epoch0 == 10 * 86400

TickSeconds == 90 * 60

\* an explicit since_timestamp a caller may pass (the midnight of a target date)
TargetDate == Epoch0 - 86400

SinceArgs == {NoneInt, TargetDate}

\* what gets published upstream: a submission that names the brand, one that
\* does not ("STD"), and a comment that names the brand
ItemShapes ==
    { [subreddit |-> "TDBank",  text |-> s_TD,             kind |-> "post"],
      [subreddit |-> "TDBank",  text |-> <<"S","T","D">>,  kind |-> "post"],
      [subreddit |-> "TDBank",  text |-> s_TD,             kind |-> "comment"] }

\* Reddit's native ids count in base 36: "z", "10", "11", ...
NativeId(n) == IF n = 1 THEN <<"z">> ELSE <<"1", DigitChars[n - 1]>>

-----------------------------------------------------------------------------
(* Cursor Store: class IngestionState *)

\* CURRENT_TIMESTAMP() of an INSERT: the clock, with a sub-second part that
\* grows with every row inserted
CurrentTimestamp(rows, clock) == clock * 1000 + Cardinality(rows)

\* a faulty read without the WHERE clause, answering with the newest row of
\* any source: C4 has to tell it from get_state
get_state_AnySource(rows, source, query_ok) ==
    IF query_ok /\ rows # {}
    THEN LET row == CHOOSE r \in rows : \A q \in rows : r.updated_at >= q.updated_at
         IN <<row.cursor_iso, row.tie_breaker_id>>
    ELSE <<NoneIso, NoneStr>>

\* a faulty read that answers with the newest row of the source even when the
\* query raised: C9 has to tell it from get_state
get_state_IgnoringFailure(rows, source, query_ok) ==
    LET results == {r \in rows : r.source = source}
    IN IF results # {}
       THEN LET row == CHOOSE r \in results :
                           \A q \in results : r.updated_at >= q.updated_at
            IN <<row.cursor_iso, row.tie_breaker_id>>
       ELSE <<NoneIso, NoneStr>>

\* get_state: SELECT ... WHERE source = @source ORDER BY updated_at DESC LIMIT 1;
\* query_ok is whether the query ran (an exception yields (None, None))
get_state(rows, source, query_ok) ==
    LET results == {r \in rows : r.source = source}
    IN IF query_ok /\ results # {}
       THEN LET row == CHOOSE r \in results :
                           \A q \in results : r.updated_at >= q.updated_at
            IN <<row.cursor_iso, row.tie_breaker_id>>
       ELSE <<NoneIso, NoneStr>>

\* a faulty write that replaces the rows of the source by the new one (an
\* upsert): C3 has to tell it from update_state
update_state_Overwrite(rows, source, cursor_iso, tie_breaker_id, clock, query_ok) ==
    IF query_ok
    THEN {r \in rows : r.source # source}
            \cup {[source |-> source, cursor_iso |-> cursor_iso,
                   tie_breaker_id |-> tie_breaker_id,
                   updated_at |-> CurrentTimestamp(rows, clock)]}
    ELSE rows

\* a faulty write that leaves a row behind although the query raised: C10 has
\* to tell it from update_state
update_state_RowOnFailure(rows, source, cursor_iso, tie_breaker_id, clock, query_ok) ==
    rows \cup {[source |-> source, cursor_iso |-> cursor_iso,
                tie_breaker_id |-> tie_breaker_id,
                updated_at |-> CurrentTimestamp(rows, clock)]}

\* update_state: INSERT of one row; a failed query is logged and swallowed
update_state(rows, source, cursor_iso, tie_breaker_id, clock, query_ok) ==
    IF query_ok
    THEN rows \cup {[source |-> source, cursor_iso |-> cursor_iso,
                     tie_breaker_id |-> tie_breaker_id,
                     updated_at |-> CurrentTimestamp(rows, clock)]}
    ELSE rows

-----------------------------------------------------------------------------
(* Record Normalizer *)

\* a faulty event id without the native type: C6 has to tell it from
\* generate_event_id
generate_event_id_NoType(reddit_type, reddit_id) == <<"reddit_">> \o reddit_id

generate_event_id(reddit_type, reddit_id) ==
    IF reddit_type = "post" THEN <<"reddit_t3_">> \o reddit_id
    ELSE IF reddit_type = "comment" THEN <<"reddit_t1_">> \o reddit_id
    ELSE <<"reddit_", reddit_type, "_">> \o reddit_id

\* a faulty normalizer that stamps the run into the event id: C5 has to tell it
\* from process_item
process_item_RunStamped(item, reddit_type, brand_id, subreddit_name, clock, offset) ==
    [event_id     |-> generate_event_id(reddit_type, item.id) \o <<"_", UtcNow(clock)>>,
     ts_event     |-> IsoFormatZ(FromTimestamp(item.created_utc, offset)),
     brand_id     |-> brand_id,
     source       |-> "reddit",
     text         |-> Strip(item.text),
     reddit_id    |-> item.id,
     reddit_type  |-> reddit_type,
     subreddit    |-> subreddit_name,
     ingested_at  |-> IsoFormatZ(UtcNow(clock)),
     source_run   |-> <<"reddit_fetcher_", UtcNow(clock)>>]

\* _process_submission / _process_comment (they differ in the type they pass to
\* _generate_event_id and in metadata this model does not keep)
process_item(item, reddit_type, brand_id, subreddit_name, clock, offset) ==
    [event_id     |-> generate_event_id(reddit_type, item.id),
     ts_event     |-> IsoFormatZ(FromTimestamp(item.created_utc, offset)),
     brand_id     |-> brand_id,
     source       |-> "reddit",
     text         |-> Strip(item.text),
     reddit_id    |-> item.id,
     reddit_type  |-> reddit_type,
     subreddit    |-> subreddit_name,
     ingested_at  |-> IsoFormatZ(UtcNow(clock)),
     source_run   |-> <<"reddit_fetcher_", UtcNow(clock)>>]

\* CFPB _parse_date: a 'YYYY-MM-DD' day becomes its midnight, a missing date
\* the time of the run
parse_date(date_received, clock) ==
    IF date_received = NoneInt THEN IsoFormatZ(UtcNow(clock))
    ELSE IsoFormatZ(date_received * 86400)

\* the record fetch_cfpb_complaints builds for a hit of a mapped company
process_complaint(source, brand_id, clock) ==
    [event_id     |-> <<"cfpb_">> \o (IF source.complaint_id = NoneStr THEN << >>
                                      ELSE source.complaint_id),
     ts_event     |-> parse_date(source.date_received, clock),
     brand_id     |-> brand_id,
     source       |-> "cfpb",
     complaint_id |-> source.complaint_id,
     ingested_at  |-> IsoFormatZ(UtcNow(clock)),
     source_run   |-> <<"cfpb_fetcher_", UtcNow(clock)>>]

-----------------------------------------------------------------------------
(* Incremental Poller: fetch_incremental_posts_and_comments *)

source_key_of(subreddit_name) == <<"reddit_", subreddit_name>>

\* a faulty window that starts at the cursor itself, without the overlap: C7
\* has to tell it from ComputeSince
ComputeSince_NoOverlap(since_timestamp, initial_fetch, last_cursor, clock, offset) ==
    IF Truthy(since_timestamp) /\ ~initial_fetch
    THEN Max(0, since_timestamp - overlap_seconds)
    ELSE IF last_cursor # NoneIso /\ ~initial_fetch
    THEN ParseIsoZTimestamp(last_cursor)
    ELSE NaiveTimestamp(UtcNow(clock) - LookbackSeconds, offset)

\* the window: the if / elif / else on since_timestamp, last_cursor, initial_fetch
ComputeSince(since_timestamp, initial_fetch, last_cursor, clock, offset) ==
    IF Truthy(since_timestamp) /\ ~initial_fetch
    THEN Max(0, since_timestamp - overlap_seconds)
    ELSE IF last_cursor # NoneIso /\ ~initial_fetch
    THEN ParseIsoZTimestamp(last_cursor) - overlap_seconds
    ELSE NaiveTimestamp(UtcNow(clock) - LookbackSeconds, offset)

\* limit = 500 if initial_fetch else 100
SearchLimit(initial_fetch) == IF initial_fetch THEN 500 ELSE 100

\* the (brand_id, term) pairs the two nested for-loops visit, in order, when
\* brand_terms holds every term of every brand
RECURSIVE PlanFrom(_, _)
PlanFrom(b, t) ==
    IF b > Len(FINANCIAL_BRANDS) THEN << >>
    ELSE IF t > Len(FINANCIAL_BRANDS[b].terms) THEN PlanFrom(b + 1, 1)
    ELSE << [brand_id |-> FINANCIAL_BRANDS[b].brand_id,
             term |-> FINANCIAL_BRANDS[b].terms[t]] >> \o PlanFrom(b, t + 1)

SearchPlan == PlanFrom(1, 1)

\* the texts upstream items carry, and what detect_brand_mentions returns for
\* each of them (a pure function of the text, tabulated once)
Texts == {shape.text : shape \in ItemShapes}

BrandDetection == [text \in Texts |-> detect_brand_mentions(text)]

\* brand_detection['brand_id'] == brand_id and confidence_score > 0.3
Accepted(text, brand_id) ==
    LET brand_detection == BrandDetection[text]
    IN /\ brand_detection.brand_id = brand_id
       /\ AboveThreshold(brand_detection.confidence_score)

\* the record appended to all_messages: the normalized item plus brand_detection
Message(item, reddit_type, ctx) ==
    LET brand_detection == BrandDetection[item.text]
    IN process_item(item, reddit_type, ctx.brand_id, ctx.subreddit_name,
                    ctx.clock, ctx.offset)
       @@ [matched_terms    |-> brand_detection.matched_terms,
           confidence_score |-> brand_detection.confidence_score,
           match_count      |-> Len(brand_detection.match_positions)]

\* a faulty update that compares event times only, so that of the items tied
\* at the maximum the first one scanned stays: C24 has to tell it from TrackMax
TrackMax_TimeOnly(st, item) ==
    IF item.created_utc > st.max_timestamp
    THEN [st EXCEPT !.max_timestamp = item.created_utc, !.max_tie_breaker = item.id]
    ELSE st

\* "Update max timestamp and tie-breaker"
TrackMax(st, item) ==
    IF \/ item.created_utc > st.max_timestamp
       \/ (item.created_utc = st.max_timestamp /\ StrGT(item.id, st.max_tie_breaker))
    THEN [st EXCEPT !.max_timestamp = item.created_utc, !.max_tie_breaker = item.id]
    ELSE st

\* one comment of the loop over submission.comments.list()[:10]
ScanComment(comment, st, ctx) ==
    IF comment.created_utc < ctx.since_timestamp THEN st
    ELSE IF Accepted(comment.text, ctx.brand_id)
    THEN TrackMax([st EXCEPT !.all_messages = Append(@, Message(comment, "comment", ctx))],
                  comment)
    ELSE st

RECURSIVE ScanComments(_, _, _)
ScanComments(comments, st, ctx) ==
    IF Len(comments) = 0 THEN st
    ELSE ScanComments(Tail(comments), ScanComment(Head(comments), st, ctx), ctx)

\* the comments of a submission, as the upstream lists them
CommentsOf(items, submission) ==
    SelectSeq(items, LAMBDA c : c.kind = "comment" /\ c.parent_id = submission.id)

\* a faulty scan that moves the maximum for every submission in the window,
\* accepted or not: C2 has to tell it from ScanSubmission
ScanSubmission_TrackAll(submission, comments_ok, st, ctx) ==
    IF submission.created_utc < ctx.since_timestamp THEN st
    ELSE LET st1 == IF Accepted(submission.text, ctx.brand_id)
                    THEN TrackMax([st EXCEPT !.all_messages =
                                       Append(@, Message(submission, "post", ctx))],
                                  submission)
                    ELSE TrackMax(st, submission)
         IN IF comments_ok
            THEN ScanComments(CommentsOf(ctx.items, submission), st1, ctx)
            ELSE st1

\* a faulty scan without the test against since_timestamp: C25 has to tell it
\* from ScanSubmission
ScanSubmission_NoWindow(submission, comments_ok, st, ctx) ==
    LET st1 == IF Accepted(submission.text, ctx.brand_id)
               THEN TrackMax([st EXCEPT !.all_messages =
                                  Append(@, Message(submission, "post", ctx))],
                             submission)
               ELSE st
    IN IF comments_ok
       THEN ScanComments(CommentsOf(ctx.items, submission), st1, ctx)
       ELSE st1

\* one submission of the loop over the search results; comments_ok is whether
\* fetching its comments succeeded (an exception there is logged and skipped)
ScanSubmission(submission, comments_ok, st, ctx) ==
    IF submission.created_utc < ctx.since_timestamp THEN st
    ELSE LET st1 == IF Accepted(submission.text, ctx.brand_id)
                    THEN TrackMax([st EXCEPT !.all_messages =
                                       Append(@, Message(submission, "post", ctx))],
                                  submission)
                    ELSE st
         IN IF comments_ok
            THEN ScanComments(CommentsOf(ctx.items, submission), st1, ctx)
            ELSE st1

RECURSIVE ScanSubmissions(_, _, _, _)
ScanSubmissions(submissions, comments_failed, st, ctx) ==
    IF Len(submissions) = 0 THEN st
    ELSE ScanSubmissions(Tail(submissions), comments_failed,
             ScanSubmission(Head(submissions), Head(submissions).id \notin comments_failed,
                            st, ctx),
             ctx)

\* what subreddit.search(query, sort='new', limit=limit) may return: any list
\* of distinct submissions of the subreddit, newest first, at most limit long
SearchResults(items, subreddit_name, limit) ==
    LET posts == {i \in DOMAIN items :
                     items[i].kind = "post" /\ items[i].subreddit = subreddit_name}
        n == Min(Cardinality(posts), limit)
    IN UNION { { [k \in 1..len |-> items[ix[k]]] :
                   ix \in {f \in [1..len -> posts] :
                              /\ \A a, b \in 1..len : a # b => f[a] # f[b]
                              /\ \A a, b \in 1..len :
                                    a < b => items[f[a]].created_utc >= items[f[b]].created_utc} }
               : len \in 0..n }

\* the submissions of a result list that have comments (only for these does a
\* failing comment fetch change what the scan does)
WithComments(items, submissions) ==
    {submissions[k].id : k \in {j \in DOMAIN submissions :
                                   Len(CommentsOf(items, submissions[j])) > 0}}

IdlePoll ==
    [pc |-> "idle", subreddit_name |-> "", since_arg |-> NoneInt,
     initial_fetch |-> FALSE, read_ok |-> TRUE,
     last_cursor |-> NoneIso, last_tie_breaker |-> NoneStr,
     since_timestamp |-> 0, max_timestamp |-> 0, max_tie_breaker |-> << >>,
     all_messages |-> << >>, term_idx |-> 1, limit |-> 0, wrote |-> "none",
     failed_terms |-> {}]

\* lines 385-407: read the cursor, choose the window, initialise the maximum
BeginPoll(p, subreddit_name, since_arg, initial_fetch, read_ok) ==
    /\ poll[p].pc = "idle"
    /\ \A q \in Pollers : q < p => poll[q].pc # "idle"
    /\ LET state == get_state(ingest_state, source_key_of(subreddit_name), read_ok)
           last_cursor == state[1]
           last_tie_breaker == state[2]
           since_timestamp == ComputeSince(since_arg, initial_fetch, last_cursor, now, tz)
       IN poll' = [poll EXCEPT ![p] =
                     [pc |-> "search", subreddit_name |-> subreddit_name,
                      since_arg |-> since_arg, initial_fetch |-> initial_fetch,
                      read_ok |-> read_ok,
                      last_cursor |-> last_cursor, last_tie_breaker |-> last_tie_breaker,
                      since_timestamp |-> since_timestamp,
                      max_timestamp |-> since_timestamp,
                      max_tie_breaker |-> IF last_tie_breaker = NoneStr THEN << >>
                                          ELSE last_tie_breaker,
                      all_messages |-> << >>, term_idx |-> 1,
                      limit |-> SearchLimit(initial_fetch), wrote |-> "none",
                      failed_terms |-> {}]]
    /\ runs' = runs + 1
    /\ UNCHANGED <<now, tz, upstream, ingest_state, normalized, matcher, sink, jobs,
                 nlp, limiter, glassdoor>>

\* lines 414-486, one term of the loop: the search succeeds and its results
\* are scanned
SearchTerm(p) ==
    /\ poll[p].pc = "search"
    /\ poll[p].term_idx <= Len(SearchPlan)
    /\ \E submissions \in SearchResults(upstream, poll[p].subreddit_name, poll[p].limit) :
       \E comments_failed \in SUBSET WithComments(upstream, submissions) :
          LET ctx == [brand_id |-> SearchPlan[poll[p].term_idx].brand_id,
                      subreddit_name |-> poll[p].subreddit_name,
                      since_timestamp |-> poll[p].since_timestamp,
                      clock |-> now, offset |-> tz, items |-> upstream]
              st == ScanSubmissions(submissions, comments_failed,
                        [max_timestamp |-> poll[p].max_timestamp,
                         max_tie_breaker |-> poll[p].max_tie_breaker,
                         all_messages |-> poll[p].all_messages], ctx)
          IN poll' = [poll EXCEPT ![p].max_timestamp = st.max_timestamp,
                                  ![p].max_tie_breaker = st.max_tie_breaker,
                                  ![p].all_messages = st.all_messages,
                                  ![p].term_idx = @ + 1]
    /\ UNCHANGED <<now, tz, upstream, ingest_state, runs, normalized, matcher, sink, jobs,
                 nlp, limiter, glassdoor>>

\* lines 484-486: the search for one term raises; it is logged and the loop
\* goes on with the next term
SearchTermFails(p) ==
    /\ poll[p].pc = "search"
    /\ poll[p].term_idx <= Len(SearchPlan)
    /\ poll' = [poll EXCEPT ![p].term_idx = @ + 1,
                            ![p].failed_terms = @ \cup {poll[p].term_idx}]
    /\ UNCHANGED <<now, tz, upstream, ingest_state, runs, normalized, matcher, sink, jobs,
                 nlp, limiter, glassdoor>>

\* a faulty end of the scan that writes the watermark whether or not the
\* maximum moved: C23 has to tell it from UpdateState
UpdateState_Unconditional(p, write_ok) ==
    /\ poll[p].pc = "search"
    /\ poll[p].term_idx > Len(SearchPlan)
    /\ ingest_state' =
          update_state(ingest_state, source_key_of(poll[p].subreddit_name),
              IsoFormatZ(FromTimestamp(poll[p].max_timestamp, tz)),
              poll[p].max_tie_breaker, now, write_ok)
    /\ poll' = [poll EXCEPT ![p].pc = "return",
                    ![p].wrote = IF write_ok THEN "ok" ELSE "failed"]
    /\ UNCHANGED <<now, tz, upstream, runs, normalized, matcher, sink, jobs,
                 nlp, limiter, glassdoor>>

\* lines 488-491: "Update state if we processed any messages"
UpdateState(p, write_ok) ==
    /\ poll[p].pc = "search"
    /\ poll[p].term_idx > Len(SearchPlan)
    /\ IF poll[p].max_timestamp > poll[p].since_timestamp
       THEN /\ ingest_state' =
                  update_state(ingest_state, source_key_of(poll[p].subreddit_name),
                      IsoFormatZ(FromTimestamp(poll[p].max_timestamp, tz)),
                      poll[p].max_tie_breaker, now, write_ok)
            /\ poll' = [poll EXCEPT ![p].pc = "return",
                            ![p].wrote = IF write_ok THEN "ok" ELSE "failed"]
       ELSE /\ write_ok
            /\ ingest_state' = ingest_state
            /\ poll' = [poll EXCEPT ![p].pc = "return"]
    /\ UNCHANGED <<now, tz, upstream, runs, normalized, matcher, sink, jobs,
                 nlp, limiter, glassdoor>>

\* lines 496-497: return all_messages; the call is over
Return(p) ==
    /\ poll[p].pc = "return"
    /\ poll' = [poll EXCEPT ![p] = IdlePoll]
    /\ UNCHANGED <<now, tz, upstream, ingest_state, runs, normalized, matcher, sink, jobs,
                 nlp, limiter, glassdoor>>

-----------------------------------------------------------------------------
(* Environment: the upstream and the clock *)

\* no call of fetch_incremental_posts_and_comments is under way
Quiet == \A q \in Pollers : poll[q].pc = "idle"

\* the submissions of a subreddit, oldest first
PostsOf(items, subreddit_name) ==
    SelectSeq(items, LAMBDA i : i.kind = "post" /\ i.subreddit = subreddit_name)

\* somebody posts a submission, or a comment on the newest submission of
\* the subreddit
Publish(shape) ==
    /\ Quiet
    /\ Len(upstream) < MaxItems
    /\ shape.kind = "comment" => Len(PostsOf(upstream, shape.subreddit)) > 0
    /\ upstream' = Append(upstream,
          [id |-> NativeId(Len(SelectSeq(upstream, LAMBDA i : i.kind = shape.kind)) + 1),
           kind |-> shape.kind,
           created_utc |-> now, text |-> shape.text,
           subreddit |-> shape.subreddit,
           parent_id |-> IF shape.kind = "comment"
                         THEN LET posts == PostsOf(upstream, shape.subreddit)
                              IN posts[Len(posts)].id
                         ELSE NoneStr])
    /\ UNCHANGED <<now, tz, ingest_state, poll, runs, normalized, matcher, sink, jobs,
                 nlp, limiter, glassdoor>>

\* the clock advances by one step; a step is longer than any call lasts
Tick ==
    /\ Quiet
    /\ now < Epoch0 + MaxTicks * TickSeconds
    /\ now' = now + TickSeconds
    /\ UNCHANGED <<tz, upstream, ingest_state, poll, runs, normalized, matcher, sink, jobs,
                 nlp, limiter, glassdoor>>

-----------------------------------------------------------------------------
(* Sink Writer: save_to_gcs_partitioned (Reddit, CFPB) and save_to_gcs (Twitter) *)

EmptyBucket == [uploads |-> << >>, uuids |-> 0]

\* the dates msg['ts_event'][:10] of the records of a batch
Dates == {"2024-01-10", "2024-01-11"}

\* messages_by_date.keys() in insertion order: the dates of a batch in the
\* order in which they first appear in it
Batches ==
    UNION {{b \in [1..n -> Dates] : \A i, k \in 1..n : i # k => b[i] # b[k]}
              : n \in 0..Cardinality(Dates)}

\* datetime.utcnow().strftime('%Y%m%d-%H%M%S'): the clock to the second
RunTimestamp(t) == ToString(t)

\* uuid.uuid4().hex[:8]: a value no earlier draw gave
Uuid4Hex8(bucket) == ToString(bucket.uuids + 1)

\* hashlib.md5(date_str.encode()).hexdigest()[:8]: determined by the date
Md5Hex8(date_str) == <<"md5(", date_str, ")[:8]">>

RedditBlobPath(date_str, run_id) ==
    <<"raw/reddit/dt=", date_str, "/part-">> \o run_id \o <<".jsonl.gz">>

CfpbBlobPath(date_str, run_timestamp) ==
    <<"raw/cfpb/dt=", date_str, "/part-", run_timestamp, "-">>
       \o Md5Hex8(date_str) \o <<".jsonl.gz">>

TwitterBlobPath(date_str, brand_id) ==
    <<"raw/twitter/date=", date_str, "/", brand_id, ".ndjson">>

\* the brands of the Twitter fetcher's table, in the order of the dict (two
\* of the seven)
TWITTER_BRANDS == <<"c", "td">>

\* a run that has just entered its entry point
NewJob(fetcher) ==
    [fetcher |-> fetcher, run_timestamp |-> "", target_date |-> "",
     partitions |-> << >>, idx |-> 1, saved_files |-> << >>,
     attempted |-> << >>, errors |-> << >>, logged |-> << >>,
     pc |-> "done", status |-> 200]

\* blob.upload_from_string(...) succeeded
Uploaded(bucket, job, blob_path) ==
    [bucket EXCEPT !.uploads = Append(@, [job |-> job, blob_path |-> blob_path])]

\* fetch_reddit_data_idempotent up to the call of save_to_gcs_partitioned:
\* run_timestamp is taken, the messages are fetched and enriched, and grouped
\* by date; an empty batch returns at once ("No messages to save")
fetch_reddit_data_idempotent(batch) ==
    /\ Len(jobs) < MaxSinkRuns
    /\ jobs' = Append(jobs, [NewJob("reddit") EXCEPT
                                !.run_timestamp = RunTimestamp(now),
                                !.partitions = batch,
                                !.pc = IF batch = << >> THEN "done" ELSE "save"])
    /\ UNCHANGED <<now, tz, upstream, ingest_state, poll, runs, normalized, matcher, sink,
                 nlp, limiter, glassdoor>>

\* fetch_cfpb_data up to the call of save_to_gcs_partitioned
fetch_cfpb_data(batch) ==
    /\ Len(jobs) < MaxSinkRuns
    /\ jobs' = Append(jobs, [NewJob("cfpb") EXCEPT
                                !.run_timestamp = RunTimestamp(now),
                                !.partitions = batch,
                                !.pc = IF batch = << >> THEN "done" ELSE "save"])
    /\ UNCHANGED <<now, tz, upstream, ingest_state, poll, runs, normalized, matcher, sink,
                 nlp, limiter, glassdoor>>

\* one pass of the loop over messages_by_date of save_to_gcs_partitioned in
\* run job: the path is built and the partition uploaded. A failing upload
\* raises; nothing in the loop catches it, so it leaves the loop and the
\* function and reaches the except clause of the entry point, which logs it
\* and answers 500. After the last partition the entry point answers 200.
save_to_gcs_partitioned(job, upload_ok) ==
    /\ job \in DOMAIN jobs
    /\ jobs[job].pc = "save"
    /\ LET j == jobs[job]
           date_str == j.partitions[j.idx]
           run_id == <<j.run_timestamp, "-", Uuid4Hex8(sink)>>
           blob_path == IF j.fetcher = "reddit"
                        THEN RedditBlobPath(date_str, run_id)
                        ELSE CfpbBlobPath(date_str, j.run_timestamp)
           drawn == IF j.fetcher = "reddit"
                    THEN [sink EXCEPT !.uuids = @ + 1] ELSE sink
       IN IF upload_ok
          THEN /\ sink' = Uploaded(drawn, job, blob_path)
               /\ jobs' = [jobs EXCEPT
                              ![job].saved_files = Append(@, blob_path),
                              ![job].attempted = Append(@, date_str),
                              ![job].idx = @ + 1,
                              ![job].pc = IF j.idx = Len(j.partitions)
                                          THEN "done" ELSE "save"]
          ELSE /\ sink' = drawn
               /\ jobs' = [jobs EXCEPT
                              ![job].attempted = Append(@, date_str),
                              ![job].errors = Append(@, [at |-> date_str, kind |-> "upload"]),
                              ![job].logged = Append(@, "entry point"),
                              ![job].pc = "done",
                              ![job].status = 500]
    /\ UNCHANGED <<now, tz, upstream, ingest_state, poll, runs, normalized, matcher,
                 nlp, limiter, glassdoor>>

\* fetch_twitter_data up to its loop over the brands: target_date is the
\* request's date
fetch_twitter_data(target_date) ==
    /\ Len(jobs) < MaxSinkRuns
    /\ jobs' = Append(jobs, [NewJob("twitter") EXCEPT
                                !.target_date = target_date,
                                !.partitions = << target_date >>,
                                !.pc = "brands"])
    /\ UNCHANGED <<now, tz, upstream, ingest_state, poll, runs, normalized, matcher, sink,
                 nlp, limiter, glassdoor>>

\* what one call of fetch_tweets can come to: tweets, no tweets, an exception
\* of requests (HTTP error status, timeout, connection error), which the call
\* catches, or a KeyError on a tweet that lacks a field (incomplete JSON),
\* which it does not catch
FetchOutcomes == {"tweets", "no tweets", "RequestException", "KeyError"}

\* the list fetch_tweets returns, as its length; -1 when it raises
fetch_tweets(outcome) ==
    CASE outcome = "tweets"           -> 1
      [] outcome = "no tweets"        -> 0
      [] outcome = "RequestException" -> 0
      [] outcome = "KeyError"         -> -1

\* one pass of the loop over the brands in fetch_twitter_data: fetch_tweets,
\* then save_to_gcs, which uploads when there are tweets. An exception that
\* leaves fetch_tweets or save_to_gcs reaches the except clause of the entry
\* point, which logs it and answers 500.
TwitterBrand(job, outcome, upload_ok) ==
    /\ job \in DOMAIN jobs
    /\ jobs[job].pc = "brands"
    /\ LET j == jobs[job]
           brand_id == TWITTER_BRANDS[j.idx]
           tweets == fetch_tweets(outcome)
           blob_path == TwitterBlobPath(j.target_date, brand_id)
           caught == IF outcome = "RequestException"
                     THEN [jobs EXCEPT
                             ![job].errors = Append(@, [at |-> brand_id, kind |-> outcome]),
                             ![job].logged = Append(@, "fetch_tweets")]
                     ELSE jobs
           next_pc == IF j.idx = Len(TWITTER_BRANDS) THEN "done" ELSE "brands"
       IN IF tweets = -1
          THEN /\ sink' = sink
               /\ jobs' = [jobs EXCEPT
                              ![job].attempted = Append(@, brand_id),
                              ![job].errors = Append(@, [at |-> brand_id, kind |-> outcome]),
                              ![job].logged = Append(@, "entry point"),
                              ![job].pc = "done",
                              ![job].status = 500]
          ELSE IF tweets = 0
          THEN /\ upload_ok
               /\ sink' = sink
               /\ jobs' = [caught EXCEPT
                              ![job].attempted = Append(@, brand_id),
                              ![job].idx = @ + 1,
                              ![job].pc = next_pc]
          ELSE IF upload_ok
          THEN /\ sink' = Uploaded(sink, job, blob_path)
               /\ jobs' = [jobs EXCEPT
                              ![job].saved_files = Append(@, blob_path),
                              ![job].attempted = Append(@, brand_id),
                              ![job].idx = @ + 1,
                              ![job].pc = next_pc]
          ELSE /\ sink' = sink
               /\ jobs' = [jobs EXCEPT
                              ![job].attempted = Append(@, brand_id),
                              ![job].errors = Append(@, [at |-> brand_id, kind |-> "upload"]),
                              ![job].logged = Append(@, "entry point"),
                              ![job].pc = "done",
                              ![job].status = 500]
    /\ UNCHANGED <<now, tz, upstream, ingest_state, poll, runs, normalized, matcher,
                 nlp, limiter, glassdoor>>

-----------------------------------------------------------------------------
(* NLP Enricher: NLPEnricher.analyze_text_batch, enrich_reddit_records and *)
(* the Reddit fetcher's _enrich_with_nlp                                   *)

\* records of one batch at most
MaxBatch == 3

\* the result that stands for "no analysis": the dict literal of main.py
\* lines 69-75, 86-92, 114-121 and 179-185 without its 'error' key
DefaultAnalysis ==
    [sentiment  |-> [num |-> 0, den |-> 1],
     severity   |-> [num |-> 0, den |-> 1],
     topics     |-> << >>,
     language   |-> "en",
     confidence |-> [num |-> 0, den |-> 1]]

\* max(lo, min(hi, float(x)))
Clamp(lo, hi, x) ==
    LET m == IF x.num * hi.den <= hi.num * x.den THEN x ELSE hi
    IN  IF m.num * lo.den >= lo.num * m.den THEN m ELSE lo

\* NLPEnricher._clean_text on a text without URLs and without runs of white
\* space: text[:2000].strip()
clean_text(text) == Strip(SubSeq(text, 1, Min(2000, Len(text))))

\* NLPEnricher._parse_gemini_response: the JSON object of the response,
\* clamped; a response without a JSON object raises inside the try and the
\* except branch returns the default dict, which has no 'error' key
parse_gemini_response(response) ==
    IF response.kind = "json"
    THEN [sentiment  |-> Clamp([num |-> -1, den |-> 1], [num |-> 1, den |-> 1],
                               response.result.sentiment),
          severity   |-> Clamp([num |-> 0, den |-> 1], [num |-> 1, den |-> 1],
                               response.result.severity),
          topics     |-> SubSeq(response.result.topics, 1,
                                Min(3, Len(response.result.topics))),
          language   |-> response.result.language,
          confidence |-> Clamp([num |-> 0, den |-> 1], [num |-> 1, den |-> 1],
                               response.result.confidence)]
    ELSE DefaultAnalysis

\* NLPEnricher._analyze_single_text: response is what model.generate_content
\* does for this text
analyze_single_text(text, response) ==
    IF Len(Strip(clean_text(text))) < 10
    THEN DefaultAnalysis
    ELSE IF response.kind = "raises"
         THEN DefaultAnalysis @@ [error |-> response.message]
         ELSE parse_gemini_response(response)

\* NLPEnricher.analyze_text_batch: one result per text, in order.  Nothing
\* _analyze_single_text does here raises, so the except branch of lines 66-75
\* is not taken.
analyze_text_batch(texts, responses) ==
    [i \in 1..Len(texts) |-> analyze_single_text(texts[i], responses[i])]

\* the text enrich_reddit_records analyses for a record
RecordText(record) ==
    IF "title" \in DOMAIN record /\ record.title # << >>
    THEN record.title \o <<"\n", "\n">> \o record.body
    ELSE record.text

\* datetime.utcnow().isoformat() + 'Z'
NlpProcessedAt == IsoFormatZ(UtcNow(now))

\* enrich_reddit_records: zip(records, analyses), a copy of each record updated
\* with its analysis, and nlp_error when the analysis has an 'error' key
enrich_reddit_records(records, responses) ==
    LET texts == [i \in 1..Len(records) |-> RecordText(records[i])]
        analyses == analyze_text_batch(texts, responses)
        enriched(record, analysis) ==
            LET updated ==
                    [sentiment        |-> analysis.sentiment,
                     severity         |-> analysis.severity,
                     topics           |-> analysis.topics,
                     language         |-> analysis.language,
                     nlp_confidence   |-> analysis.confidence,
                     nlp_model        |-> "vertex-ai-gemini-1.5-flash",
                     nlp_version      |-> "v1.0",
                     nlp_processed_at |-> NlpProcessedAt] @@ record
            IN  IF "error" \in DOMAIN analysis
                THEN [nlp_error |-> analysis.error] @@ updated
                ELSE updated
    IN  [i \in 1..Min(Len(records), Len(analyses)) |-> enriched(records[i], analyses[i])]

\* the except branch of _enrich_with_nlp: every message updated with the
\* defaults and the error string
EnrichmentFailed(messages, error) ==
    [i \in 1..Len(messages) |->
        [sentiment        |-> DefaultAnalysis.sentiment,
         severity         |-> DefaultAnalysis.severity,
         topics           |-> DefaultAnalysis.topics,
         language         |-> DefaultAnalysis.language,
         nlp_confidence   |-> DefaultAnalysis.confidence,
         nlp_model        |-> "none",
         nlp_version      |-> "v1.0",
         nlp_processed_at |-> NlpProcessedAt,
         nlp_error        |-> error] @@ messages[i]]

\* the texts of the batches: one shorter than ten characters, one longer
ShortText == <<"f","e","e","s">>

LongText == <<"f","e","e","s"," ","t","o","o"," ","h","i","g","h">>

\* a post (title and body) and a comment (text) with the given event id
NlpRecords(event_id) ==
    {[event_id |-> event_id, title |-> LongText, body |-> << >>],
     [event_id |-> event_id, text |-> ShortText],
     [event_id |-> event_id, text |-> LongText]}

\* what model.generate_content does for one text: it raises, it answers with a
\* text that holds no JSON object, or it answers with a JSON object (one within
\* the ranges, one outside them with four topics)
ServiceResponses ==
    {[kind |-> "raises", message |-> "503 Service Unavailable", result |-> DefaultAnalysis],
     [kind |-> "no json", message |-> "", result |-> DefaultAnalysis],
     [kind |-> "json", message |-> "",
      result |-> [sentiment |-> [num |-> -7, den |-> 10], severity |-> [num |-> 8, den |-> 10],
                  topics |-> <<"fees">>, language |-> "en",
                  confidence |-> [num |-> 9, den |-> 10]]],
     [kind |-> "json", message |-> "",
      result |-> [sentiment |-> [num |-> -15, den |-> 10], severity |-> [num |-> 12, den |-> 10],
                  topics |-> <<"fees", "fraud", "atm", "loans">>, language |-> "en",
                  confidence |-> [num |-> 9, den |-> 10]]]}

\* before the first call
NoBatch ==
    [called |-> FALSE, messages |-> << >>, responses |-> << >>, import_error |-> "",
     returned |-> << >>]

\* the batches: event ids 1..n in order
NlpBatches ==
    UNION {{m \in [1..n -> UNION {NlpRecords(i) : i \in 1..MaxBatch}] :
                \A i \in 1..n : m[i].event_id = i} : n \in 0..MaxBatch}

\* _enrich_with_nlp(messages), called once with the messages of a run:
\* import_error is "" when main_nlp imports and NLPEnricher() is constructed,
\* else the message of the exception
enrich_with_nlp(messages, responses, import_error) ==
    /\ ~nlp.called
    /\ nlp' = [called       |-> TRUE,
               messages     |-> messages,
               responses    |-> responses,
               import_error |-> import_error,
               returned     |->
                   IF messages = << >>
                   THEN messages
                   ELSE IF import_error = ""
                        THEN enrich_reddit_records(messages, responses)
                        ELSE EnrichmentFailed(messages, import_error)]
    /\ UNCHANGED <<now, tz, upstream, ingest_state, poll, runs, normalized, matcher, sink, jobs,
                 limiter, glassdoor>>

-----------------------------------------------------------------------------
(* Rate limiter of the Reddit fetcher: _rate_limit.  Times are milliseconds *)
(* since the fetcher was constructed.                                       *)

\* requests issued through _rate_limit at most
MaxRequests == 4

\* the clock of the limiter stops at
MaxClock == 3000

REDDIT_REQUESTS_PER_MINUTE == 100

\* 60.0 / REDDIT_REQUESTS_PER_MINUTE seconds
REQUEST_DELAY == 60000 \div REDDIT_REQUESTS_PER_MINUTE

\* what a request and the processing of its results can take
WorkTimes == {100, 700, 1500}

\* __init__: request_count = 0, start_time = time.time()
NewLimiter ==
    [start_time |-> 0, clock |-> 0, request_count |-> 0, issued |-> << >>]

\* _rate_limit and the request that follows it: the counter goes up, the call
\* sleeps until start_time + request_count * REQUEST_DELAY when that lies
\* ahead, and the request is issued when it returns
rate_limit ==
    /\ limiter.request_count < MaxRequests
    /\ LET request_count == limiter.request_count + 1
           elapsed == limiter.clock - limiter.start_time
           expected_time == request_count * REQUEST_DELAY
           woke == IF elapsed < expected_time
                   THEN limiter.clock + (expected_time - elapsed)
                   ELSE limiter.clock
       IN  limiter' = [limiter EXCEPT !.request_count = request_count,
                                      !.clock = woke,
                                      !.issued = Append(@, woke)]
    /\ UNCHANGED <<now, tz, upstream, ingest_state, poll, runs, normalized, matcher, sink, jobs,
                 nlp, glassdoor>>

\* the request, the scan of its results, the comments: time passes
Work(took) ==
    /\ limiter.clock + took <= MaxClock
    /\ limiter' = [limiter EXCEPT !.clock = @ + took]
    /\ UNCHANGED <<now, tz, upstream, ingest_state, poll, runs, normalized, matcher, sink, jobs,
                 nlp, glassdoor>>

-----------------------------------------------------------------------------
(* Glassdoor: GlassdoorAPIFetcher.get_company_reviews *)

\* page requests of one call are counted up to
MaxPageRequests == 8

max_pages == 5

\* the limit argument: its default and a small one
Limits == {100, 2}

\* 'limit': min(limit, 50)
ParamsLimit(limit) == Min(limit, 50)

\* before the first call
NoCall ==
    [pc |-> "idle", limit |-> 100, page |-> 1, all_reviews |-> 0,
     requests |-> 0, odd_requests |-> FALSE]

\* what session.get and response.json() can do for one page request:
\* raises (timeout, connection error, invalid JSON), a status code, whether
\* the body has status 'OK' and a 'data' key, the number of raw reviews, and
\* how many of them _transform_review_for_bhi turns into None
PageResponses(limit) ==
    {[raises |-> TRUE, status_code |-> 0, ok |-> FALSE, raw_reviews |-> 0, dropped |-> 0]}
    \cup {[raises |-> FALSE, status_code |-> s, ok |-> FALSE, raw_reviews |-> 0, dropped |-> 0] :
            s \in {200, 429, 500}}
    \cup {[raises |-> FALSE, status_code |-> 200, ok |-> TRUE, raw_reviews |-> n, dropped |-> d] :
            n \in {0, ParamsLimit(limit) - 1, ParamsLimit(limit)}, d \in {0, 1}}

\* get_company_reviews(company_id, brand_id, limit): lines 230-232
get_company_reviews(limit) ==
    /\ glassdoor.pc \in {"idle", "returned"}
    /\ glassdoor' = [pc |-> "loop", limit |-> limit, page |-> 1, all_reviews |-> 0,
                     requests |-> 0, odd_requests |-> FALSE]
    /\ UNCHANGED <<now, tz, upstream, ingest_state, poll, runs, normalized, matcher, sink, jobs,
                 nlp, limiter>>

\* one pass of the while loop: the page request and what the code does with
\* its response; leaving the loop returns all_reviews
PageRequest(response) ==
    /\ glassdoor.pc = "loop"
    /\ glassdoor.page <= max_pages
    /\ response.dropped <= response.raw_reviews
    /\ LET counted == [glassdoor EXCEPT !.requests = Min(@ + 1, MaxPageRequests),
                                        !.odd_requests = ~@]
           break == [counted EXCEPT !.pc = "returned"]
           next_page == [counted EXCEPT !.page = @ + 1,
                                        !.pc = IF glassdoor.page + 1 <= max_pages
                                               THEN "loop" ELSE "returned"]
           bhi_reviews == response.raw_reviews - response.dropped
       IN  glassdoor' =
             IF response.raises THEN break
             ELSE IF response.status_code = 200
             THEN IF response.ok
                  THEN IF response.raw_reviews = 0 THEN break
                       ELSE IF response.raw_reviews < ParamsLimit(glassdoor.limit)
                            THEN [break EXCEPT !.all_reviews = @ + bhi_reviews]
                            ELSE [next_page EXCEPT !.all_reviews = @ + bhi_reviews]
                  ELSE break
             ELSE IF response.status_code = 429
             THEN counted
             ELSE break
    /\ UNCHANGED <<now, tz, upstream, ingest_state, poll, runs, normalized, matcher, sink, jobs,
                 nlp, limiter>>

-----------------------------------------------------------------------------
(* The fetcher and its environment *)

Init ==
    /\ now = Epoch0
    /\ tz = 0
    /\ upstream = << >>
    /\ ingest_state = {}
    /\ poll = [p \in Pollers |-> IdlePoll]
    /\ runs = 0
    /\ normalized = {}
    /\ matcher = [alias_table |-> FINANCIAL_BRANDS, text |-> << >>, returned |-> << >>]
    /\ sink = EmptyBucket
    /\ jobs = << >>
    /\ nlp = NoBatch
    /\ limiter = NewLimiter
    /\ glassdoor = NoCall

\* a complete poll of another subreddit, seen through its only effect on the
\* shared table: its update_state call (lines 488-491) with its own source key
OtherSourcePoll(subreddit_name, max_timestamp, max_tie_breaker, write_ok) ==
    /\ Quiet
    /\ runs < MaxOverlapRuns
    /\ ingest_state' =
          update_state(ingest_state, source_key_of(subreddit_name),
              IsoFormatZ(FromTimestamp(max_timestamp, tz)), max_tie_breaker, now, write_ok)
    /\ runs' = runs + 1
    /\ UNCHANGED <<now, tz, upstream, poll, normalized, matcher, sink, jobs,
                 nlp, limiter, glassdoor>>

\* native items handed to the normalizers, run after run
NativeItems ==
    {[id |-> NativeId(n), created_utc |-> Epoch0, text |-> s_TD] : n \in 1..MaxItems}

Complaints ==
    {[complaint_id |-> NativeId(2), date_received |-> 9],
     [complaint_id |-> NoneStr, date_received |-> NoneInt]}

\* what a run produced for a native item, next to the item's native identity
Observation(record, native_type, native_id) ==
    [source |-> record.source, native_type |-> native_type, native_id |-> native_id,
     event_id |-> record.event_id, ts_event |-> record.ts_event,
     ingested_at |-> record.ingested_at, source_run |-> record.source_run]

NormalizeSubmission(submission) ==
    /\ Cardinality(normalized) < MaxNormalized
    /\ normalized' = normalized \cup
          {Observation(process_item(submission, "post", "td_bank", "TDBank", now, tz),
                       "post", submission.id)}
    /\ UNCHANGED <<now, tz, upstream, ingest_state, poll, runs, matcher, sink, jobs,
                 nlp, limiter, glassdoor>>

NormalizeComment(comment) ==
    /\ Cardinality(normalized) < MaxNormalized
    /\ normalized' = normalized \cup
          {Observation(process_item(comment, "comment", "td_bank", "TDBank", now, tz),
                       "comment", comment.id)}
    /\ UNCHANGED <<now, tz, upstream, ingest_state, poll, runs, matcher, sink, jobs,
                 nlp, limiter, glassdoor>>

NormalizeComplaint(complaint) ==
    /\ Cardinality(normalized) < MaxNormalized
    /\ normalized' = normalized \cup
          {Observation(process_complaint(complaint, "td_bank", now),
                       "complaint", complaint.complaint_id)}
    /\ UNCHANGED <<now, tz, upstream, ingest_state, poll, runs, matcher, sink, jobs,
                 nlp, limiter, glassdoor>>

\* the normalizers, applied to native items at one run time after another
NextEventId ==
    \/ \E submission \in NativeItems : NormalizeSubmission(submission)
    \/ \E comment \in NativeItems : NormalizeComment(comment)
    \/ \E complaint \in Complaints : NormalizeComplaint(complaint)
    \/ Tick

SpecEventId == Init /\ [][NextEventId]_vars

\* one invocation at a time: a poll starts when no other is under way
BeginSequentialPoll(subreddit_name, since_arg, initial_fetch, read_ok) ==
    /\ Quiet
    /\ runs < MaxPolls
    /\ BeginPoll(1, subreddit_name, since_arg, initial_fetch, read_ok)

Next ==
    \/ \E subreddit_name \in Subreddits, since_arg \in SinceArgs,
          initial_fetch \in BOOLEAN, read_ok \in BOOLEAN :
          BeginSequentialPoll(subreddit_name, since_arg, initial_fetch, read_ok)
    \/ \E p \in Pollers : SearchTerm(p)
    \/ \E p \in Pollers : SearchTermFails(p)
    \/ \E p \in Pollers, write_ok \in BOOLEAN : UpdateState(p, write_ok)
    \/ \E p \in Pollers : Return(p)
    \/ \E shape \in ItemShapes : Publish(shape)
    \/ Tick

Spec == Init /\ [][Next]_vars

\* an invocation starts while another may be under way
BeginOverlappingPoll(p, subreddit_name, since_arg, initial_fetch, read_ok) ==
    /\ runs < MaxOverlapRuns
    /\ BeginPoll(p, subreddit_name, since_arg, initial_fetch, read_ok)

\* overlapping scheduled invocations (default arguments) of the same source,
\* next to polls of another source
NextConcurrent ==
    \/ \E p \in Pollers, subreddit_name \in Subreddits :
          BeginOverlappingPoll(p, subreddit_name, NoneInt, FALSE, TRUE)
    \/ \E p \in Pollers : SearchTerm(p)
    \/ \E p \in Pollers, write_ok \in BOOLEAN : UpdateState(p, write_ok)
    \/ \E p \in Pollers : Return(p)
    \/ \E write_ok \in BOOLEAN : OtherSourcePoll(OtherSubreddit, now, NativeId(1), write_ok)
    \/ \E shape \in ItemShapes : Publish(shape)
    \/ Tick

SpecConcurrent == Init /\ [][NextConcurrent]_vars

\* the UTC offsets, in seconds, of the local time zone a process may run in:
\* UTC, New York (winter), Berlin (winter)
TzOffsets == {0, -5 * 3600, 3600}

\* the fetcher in a process of any of these time zones
InitTimeZone ==
    /\ now = Epoch0
    /\ tz \in TzOffsets
    /\ upstream = << >>
    /\ ingest_state = {}
    /\ poll = [p \in Pollers |-> IdlePoll]
    /\ runs = 0
    /\ normalized = {}
    /\ matcher = [alias_table |-> FINANCIAL_BRANDS, text |-> << >>, returned |-> << >>]
    /\ sink = EmptyBucket
    /\ jobs = << >>
    /\ nlp = NoBatch
    /\ limiter = NewLimiter
    /\ glassdoor = NoCall

SpecTimeZone == InitTimeZone /\ [][Next]_vars

\* the next scheduled invocation (default arguments) of a source: it begins
\* when the invocation before it has written its watermark and is about to
\* return, whose locals stay in view
BeginFollowingPoll(subreddit_name) ==
    /\ poll[1].pc = "return"
    /\ poll[1].subreddit_name = subreddit_name
    /\ runs < MaxPolls
    /\ BeginPoll(2, subreddit_name, NoneInt, FALSE, TRUE)

\* a poll and the scheduled poll that follows it
NextFollowing ==
    \/ \E subreddit_name \in Subreddits, since_arg \in SinceArgs,
          initial_fetch \in BOOLEAN, read_ok \in BOOLEAN :
          BeginSequentialPoll(subreddit_name, since_arg, initial_fetch, read_ok)
    \/ \E subreddit_name \in Subreddits : BeginFollowingPoll(subreddit_name)
    \/ \E p \in Pollers : SearchTerm(p)
    \/ \E p \in Pollers : SearchTermFails(p)
    \/ \E p \in Pollers, write_ok \in BOOLEAN : UpdateState(p, write_ok)
    \/ \E p \in Pollers : Return(p)
    \/ \E shape \in ItemShapes : Publish(shape)
    \/ Tick

SpecFollowing == Init /\ [][NextFollowing]_vars

-----------------------------------------------------------------------------
(* The entry points of the fetchers and the bucket *)

NextSink ==
    \/ \E batch \in Batches : fetch_reddit_data_idempotent(batch)
    \/ \E batch \in Batches : fetch_cfpb_data(batch)
    \/ \E job \in 1..MaxSinkRuns, upload_ok \in BOOLEAN :
          save_to_gcs_partitioned(job, upload_ok)
    \/ \E target_date \in Dates : fetch_twitter_data(target_date)
    \/ \E job \in 1..MaxSinkRuns, outcome \in FetchOutcomes, upload_ok \in BOOLEAN :
          TwitterBrand(job, outcome, upload_ok)
    \/ Tick

SpecSink == Init /\ [][NextSink]_vars

-----------------------------------------------------------------------------
(* The Term Matcher on its own: texts, alias tables, calls *)

\* the pieces texts are put together from: aliases, a space, a letter, an
\* apostrophe
Tokens == {s_TD, s_TD_Bank, s_Citi, <<" ">>, <<"s">>, <<"'">>}

RECURSIVE Flatten(_)
Flatten(ss) == IF Len(ss) = 0 THEN << >> ELSE Head(ss) \o Flatten(Tail(ss))

TokenTexts == {Flatten(ts) : ts \in UNION {[1..n -> Tokens] : n \in 0..MaxTokens}}

\* "I love TD Bank's app but standard procedures are slow"
SampleText ==
    <<"I"," ","l","o","v","e"," ","T","D"," ","B","a","n","k",
      "'","s"," ","a","p","p"," ","b","u","t"," ","s","t","a",
      "n","d","a","r","d"," ","p","r","o","c","e","d","u","r",
      "e","s"," ","a","r","e"," ","s","l","o","w">>

MatcherTexts == TokenTexts \cup {SampleText}

InitMatcher ==
    /\ now = Epoch0
    /\ tz = 0
    /\ upstream = << >>
    /\ ingest_state = {}
    /\ poll = [p \in Pollers |-> IdlePoll]
    /\ runs = 0
    /\ normalized = {}
    /\ matcher \in {[alias_table |-> t, text |-> x, returned |-> << >>] :
                        t \in AliasTables, x \in MatcherTexts}
    /\ sink = EmptyBucket
    /\ jobs = << >>
    /\ nlp = NoBatch
    /\ limiter = NewLimiter
    /\ glassdoor = NoCall

\* one call of detect_brand_mentions(text), in a process whose hash seed is
\* hash_seed
Detect(hash_seed) ==
    /\ Len(matcher.returned) < MaxCalls
    /\ matcher' = [matcher EXCEPT !.returned =
                      Append(@, [hash_seed |-> hash_seed,
                                 results |-> DetectBrandMentions(matcher.alias_table,
                                                hash_seed, matcher.text)])]
    /\ UNCHANGED <<now, tz, upstream, ingest_state, poll, runs, normalized, sink, jobs,
                 nlp, limiter, glassdoor>>

NextMatcher == \E hash_seed \in HashSeeds : Detect(hash_seed)

SpecMatcher == InitMatcher /\ [][NextMatcher]_vars

-----------------------------------------------------------------------------
(* NLP enrichment on its own: batches and the answers of the service *)

ImportErrors == {"", "No module named 'main_nlp'"}

NextNlp ==
    \E messages \in NlpBatches, import_error \in ImportErrors :
        \E responses \in [1..Len(messages) -> ServiceResponses] :
            enrich_with_nlp(messages, responses, import_error)

SpecNlp == Init /\ [][NextNlp]_vars

-----------------------------------------------------------------------------
(* The rate limiter on its own *)

NextRateLimit ==
    \/ rate_limit
    \/ \E took \in WorkTimes : Work(took)

SpecRateLimit == Init /\ [][NextRateLimit]_vars

-----------------------------------------------------------------------------
(* The Glassdoor review loop on its own.  The loop goes on while it can:   *)
(* nothing in the code stops it between two page requests.                 *)

PageRequests ==
    \E response \in PageResponses(glassdoor.limit) : PageRequest(response)

NextGlassdoor ==
    \/ \E limit \in Limits : get_company_reviews(limit)
    \/ PageRequests

SpecGlassdoor == Init /\ [][NextGlassdoor]_vars /\ WF_vars(PageRequests)

-----------------------------------------------------------------------------
(* Properties *)

SourceKeys == {source_key_of(s) : s \in Subreddits \cup {OtherSubreddit}}

RowsOf(rows, source) == {r \in rows : r.source = source}

\* the rows of a source that no other row of the source is newer than
LatestRows(rows, source) ==
    {r \in RowsOf(rows, source) :
        \A q \in RowsOf(rows, source) : q.updated_at <= r.updated_at}

StrictlyIncreasing(items) ==
    \A i, j \in DOMAIN items : i < j => items[i].created_utc < items[j].created_utc

\* poller p makes the step from the scan to the return (lines 488-497)
Finishes(p) == poll[p].pc = "search" /\ poll'[p].pc = "return"

\* C1: with strictly increasing upstream event times, the latest cursor of a
\* source after any step of any poll is at least the latest cursor before it
\* minus the 2-hour overlap window.
C1_CursorNeverRegressesBeyondOverlap ==
    [][\A k \in SourceKeys :
          (StrictlyIncreasing(upstream) /\ RowsOf(ingest_state, k) # {}) =>
             \A a \in LatestRows(ingest_state, k), b \in LatestRows(ingest_state', k) :
                ParseIsoZTimestamp(b.cursor_iso)
                   >= ParseIsoZTimestamp(a.cursor_iso) - overlap_seconds]_vars

\* C2: a poll that accepted no item (all_messages is empty when the scan ends)
\* does not call update_state: the table is unchanged, so the row that was the
\* latest of the source is still the latest.
C2_NoQualifyingItemAdvancesNothing ==
    [][\A p \in Pollers :
          (Finishes(p) /\ poll[p].all_messages = << >>) =>
             /\ poll'[p].wrote = "none"
             /\ ingest_state' = ingest_state
             /\ \A k \in SourceKeys :
                   LatestRows(ingest_state', k) = LatestRows(ingest_state, k)]_vars

\* a poll returns nothing and wrote nothing although a prior row exists and the
\* upstream holds an item inside its window that is not a brand mention
C2_Witness ==
    \E p \in Pollers :
       /\ poll[p].pc = "return"
       /\ poll[p].all_messages = << >>
       /\ poll[p].wrote = "none"
       /\ RowsOf(ingest_state, source_key_of(poll[p].subreddit_name)) # {}
       /\ \E i \in DOMAIN upstream :
             /\ upstream[i].kind = "post"
             /\ upstream[i].created_utc >= poll[p].since_timestamp
             /\ ~Accepted(upstream[i].text, "td_bank")

\* a poll that has chosen its window and has not yet written; in Spec the
\* table and the clock are then still what they were when the poll began
Scanning(p) == poll[p].pc = "search"

ExplicitSince(p) == Truthy(poll[p].since_arg)

\* C7 (as stated): since_timestamp is now - 7 days when initial_fetch is
\* requested or when no cursor row exists and no explicit since_timestamp is
\* given; it is the latest cursor - 2 hours when a cursor row exists,
\* initial_fetch is false and no explicit since_timestamp is given.
C7_WindowSelection ==
    \A p \in Pollers :
       Scanning(p) =>
          LET k == source_key_of(poll[p].subreddit_name)
          IN /\ (poll[p].initial_fetch \/ (RowsOf(ingest_state, k) = {} /\ ~ExplicitSince(p)))
                   => poll[p].since_timestamp = now - LookbackSeconds
             /\ (RowsOf(ingest_state, k) # {} /\ ~poll[p].initial_fetch /\ ~ExplicitSince(p))
                   => \E r \in LatestRows(ingest_state, k) :
                         poll[p].since_timestamp
                            = ParseIsoZTimestamp(r.cursor_iso) - overlap_seconds

\* C7 (amended): the same, where "a cursor row exists" is "get_state read a
\* cursor row": a poll whose read of the table failed takes the 7-day window
\* although a row exists.
C7_WindowSelectionWhenRead ==
    \A p \in Pollers :
       Scanning(p) =>
          LET k == source_key_of(poll[p].subreddit_name)
              row_read == RowsOf(ingest_state, k) # {} /\ poll[p].read_ok
          IN /\ (poll[p].initial_fetch \/ (~row_read /\ ~ExplicitSince(p)))
                   => poll[p].since_timestamp = now - LookbackSeconds
             /\ (row_read /\ ~poll[p].initial_fetch /\ ~ExplicitSince(p))
                   => \E r \in LatestRows(ingest_state, k) :
                         poll[p].since_timestamp
                            = ParseIsoZTimestamp(r.cursor_iso) - overlap_seconds

\* an incremental poll: a row was read and its cursor, less the overlap, is
\* where the window starts
C7_Witness ==
    \E p \in Pollers :
       /\ Scanning(p)
       /\ poll[p].read_ok /\ ~poll[p].initial_fetch /\ ~ExplicitSince(p)
       /\ \E r \in LatestRows(ingest_state, source_key_of(poll[p].subreddit_name)) :
             /\ poll[p].last_cursor = r.cursor_iso
             /\ poll[p].since_timestamp = ParseIsoZTimestamp(r.cursor_iso) - overlap_seconds
             /\ poll[p].since_timestamp # now - LookbackSeconds

\* C8: a poll with no prior cursor row, or with initial_fetch requested, searches
\* with limit 500; only a poll that uses a prior cursor searches with limit 100.
C8_PageSize ==
    \A p \in Pollers :
       Scanning(p) =>
          LET k == source_key_of(poll[p].subreddit_name)
          IN /\ (poll[p].initial_fetch \/ RowsOf(ingest_state, k) = {})
                   => poll[p].limit = 500
             /\ poll[p].limit = 100
                   => (RowsOf(ingest_state, k) # {} /\ ~poll[p].initial_fetch)

C10_WriteFailureOnlyLogged ==
    [][/\ \A p \in Pollers :
             (Finishes(p) /\ poll'[p].wrote = "failed") =>
                /\ poll'[p].all_messages = poll[p].all_messages
                /\ ingest_state' = ingest_state
       /\ ingest_state' # ingest_state =>
             \E p \in Pollers : Finishes(p) /\ poll'[p].wrote = "ok"]_vars

\* a poll whose write failed is about to return the events it collected
C10_Witness ==
    \E p \in Pollers :
       /\ poll[p].pc = "return"
       /\ poll[p].wrote = "failed"
       /\ poll[p].all_messages # << >>

\* C3: the cursor store is append-only: every step keeps every row of the
\* table as it is and adds at most one row, whatever polls of whatever
\* sources are under way.
C3_AppendOnly ==
    [][/\ ingest_state \subseteq ingest_state'
       /\ Cardinality(ingest_state') <= Cardinality(ingest_state) + 1]_vars

\* the table holds two watermarks of one source next to a row of another
C3_Witness ==
    /\ \E a, b \in RowsOf(ingest_state, source_key_of("TDBank")) :
          a.cursor_iso # b.cursor_iso
    /\ RowsOf(ingest_state, source_key_of(OtherSubreddit)) # {}

\* C4: get_state(source_key) returns the cursor and tie-breaker of the row with
\* the greatest updated_at among the rows of that source, whatever rows other
\* sources have, and (None, None) when the source has no row.
C4_GetStateReadsLatestOfKey ==
    \A k \in SourceKeys :
       LET state == get_state(ingest_state, k, TRUE)
       IN /\ RowsOf(ingest_state, k) = {} => state = <<NoneIso, NoneStr>>
          /\ RowsOf(ingest_state, k) # {} =>
                \E r \in LatestRows(ingest_state, k) :
                   state = <<r.cursor_iso, r.tie_breaker_id>>
          /\ state = get_state(RowsOf(ingest_state, k), k, TRUE)

\* a source has an older and a newer watermark, and the newest row of the whole
\* table belongs to another source and carries another cursor
C4_Witness ==
    \E k \in SourceKeys :
       /\ \E a, b \in RowsOf(ingest_state, k) :
             a.updated_at < b.updated_at /\ a.cursor_iso # b.cursor_iso
       /\ \E o \in ingest_state :
             /\ o.source # k
             /\ \A r \in RowsOf(ingest_state, k) :
                   o.updated_at > r.updated_at /\ o.cursor_iso # r.cursor_iso

\* the events all polls under way have collected
Collected ==
    UNION {{poll[p].all_messages[i] : i \in DOMAIN poll[p].all_messages} : p \in Pollers}

\* a poll under way can always take its next step, whatever the others do
NeverBlocked ==
    \A p \in Pollers :
       /\ Scanning(p) => ENABLED (SearchTerm(p) \/ UpdateState(p, TRUE))
       /\ poll[p].pc = "return" => ENABLED Return(p)

\* events of the polls under way have the same event_id exactly when they are
\* the same native item
SameIdentity ==
    \A a, b \in Collected :
       (a.event_id = b.event_id)
          <=> (a.reddit_type = b.reddit_type /\ a.reddit_id = b.reddit_id)

\* a successful write adds exactly one row and no step removes one
EachAppendsItsOwnRow ==
    /\ ingest_state \subseteq ingest_state'
    /\ \A p \in Pollers :
          (Finishes(p) /\ poll'[p].wrote = "ok") =>
             Cardinality(ingest_state') = Cardinality(ingest_state) + 1

\* C6: overlapping polls of one source are tolerated under every
\* interleaving: neither is ever blocked, each successful write adds its own
\* row and removes none, and the events they collect carry the same event_id
\* exactly when they are the same native item (so de-duplication on event_id
\* keeps every collected item once).
C6_ConcurrentPollsTolerated ==
    [](NeverBlocked /\ SameIdentity) /\ [][EachAppendsItsOwnRow]_vars

\* two polls read the same prior cursor before either wrote, both collected a
\* common item and both appended a watermark
C6_Witness ==
    /\ poll[1].pc = "return" /\ poll[2].pc = "return"
    /\ poll[1].wrote = "ok" /\ poll[2].wrote = "ok"
    /\ poll[1].subreddit_name = poll[2].subreddit_name
    /\ poll[1].last_cursor # NoneIso
    /\ poll[1].last_cursor = poll[2].last_cursor
    /\ IsoFormatZ(FromTimestamp(poll[1].max_timestamp, tz)) # poll[1].last_cursor
    /\ Cardinality(RowsOf(ingest_state, source_key_of(poll[1].subreddit_name))) >= 3
    /\ \E i \in DOMAIN poll[1].all_messages, j \in DOMAIN poll[2].all_messages :
          poll[1].all_messages[i].event_id = poll[2].all_messages[j].event_id

\* the event id the three native types are to have
ExpectedEventId(o) ==
    IF o.source = "reddit" /\ o.native_type = "post" THEN <<"reddit_t3_">> \o o.native_id
    ELSE IF o.source = "reddit" /\ o.native_type = "comment"
    THEN <<"reddit_t1_">> \o o.native_id
    ELSE <<"cfpb_">> \o (IF o.native_id = NoneStr THEN << >> ELSE o.native_id)

\* C5: normalizing the same native item again, at whatever run time, yields
\* the same event_id, which is reddit_t3_<id> for a post, reddit_t1_<id> for a
\* comment and cfpb_<complaint_id> for a complaint: a function of the source,
\* the native type and the native id alone.
C5_IdempotentEventId ==
    /\ \A o \in normalized : o.event_id = ExpectedEventId(o)
    /\ \A a, b \in normalized :
          (a.source = b.source /\ a.native_type = b.native_type
             /\ a.native_id = b.native_id) => a.event_id = b.event_id

\* one native item was normalized in two runs and a complaint in another
C5_Witness ==
    /\ \E a, b \in normalized :
          /\ a.source = "reddit" /\ b.source = "reddit"
          /\ a.native_type = b.native_type /\ a.native_id = b.native_id
          /\ a.source_run # b.source_run /\ a.ingested_at # b.ingested_at
          /\ a.event_id = b.event_id
    /\ \E c \in normalized : c.source = "cfpb"

\* the 0-based positions where term occurs in text, whatever the case
OccurrencesOf(term, text) ==
    {pos \in 0..(Len(text) - Len(term)) :
        Lower(SubSeq(text, pos + 1, pos + Len(term))) = Lower(term)}

\* the occurrence of length len at pos touches a letter or a digit
InsideToken(text, pos, len) ==
    \/ (pos > 0 /\ IsAlnum(text[pos]))
    \/ (pos + len < Len(text) /\ IsAlnum(text[pos + len + 1]))

\* the results the calls made so far returned
Returned == {matcher.returned[i].results : i \in DOMAIN matcher.returned}

\* C11: an occurrence of an alias of at most 3 characters that touches a
\* letter or digit is discarded: it is in no brand's match positions, an alias
\* none of whose occurrences is kept is in no matched_terms, and the brand's
\* confidence is the blend over the kept occurrences alone.
C11_ShortAliasInsideTokenDiscarded ==
    /\ \A b \in DOMAIN matcher.alias_table :
          LET kept == BrandPositions(Lower(matcher.text), matcher.alias_table[b].terms, 1)
          IN \A k \in DOMAIN kept :
                kept[k].length <= 3 =>
                   ~InsideToken(matcher.text, kept[k].position, kept[k].length)
    /\ \A r \in Returned :
          /\ \A k \in DOMAIN r.match_positions :
                r.match_positions[k].length <= 3 =>
                   ~InsideToken(matcher.text, r.match_positions[k].position,
                                r.match_positions[k].length)
          /\ \A t \in Range(r.matched_terms) :
                Len(t) <= 3 =>
                   \E pos \in OccurrencesOf(t, matcher.text) :
                      ~InsideToken(matcher.text, pos, Len(t))
          /\ r.brand_id # "None" =>
                r.confidence_score = BrandConfidence(r.match_positions)
          /\ (\A b \in DOMAIN matcher.alias_table :
                 \A k \in DOMAIN matcher.alias_table[b].terms :
                    LET t == matcher.alias_table[b].terms[k]
                    IN \A pos \in OccurrencesOf(t, matcher.text) :
                          Len(t) <= 3 /\ InsideToken(matcher.text, pos, Len(t)))
                => r = NoDetection

\* a call returned a brand for a text in which "TD" also occurs inside a longer
\* token, and that occurrence is not among the match positions
C11_Witness ==
    \E r \in Returned :
       /\ r.brand_id = "td_bank"
       /\ \E pos \in OccurrencesOf(s_TD, matcher.text) :
             /\ InsideToken(matcher.text, pos, Len(s_TD))
             /\ \A k \in DOMAIN r.match_positions :
                   ~(r.match_positions[k].term = s_TD
                       /\ r.match_positions[k].position = pos)

\* C12: with the alias table {"td_bank": ["TD Bank", "TD"]} and the text
\* "I love TD Bank's app but standard procedures are slow" the Term Matcher
\* returns td_bank with matched_terms exactly {"TD Bank"}.
C12_SampleMatchesOnlyTDBank ==
    (matcher.alias_table = FINANCIAL_BRANDS /\ matcher.text = SampleText) =>
       \A r \in Returned :
          /\ r.brand_id = "td_bank"
          /\ Range(r.matched_terms) = {s_TD_Bank}

\* term occurs in text in exactly its own case, touching no letter or digit
CleanExactOccurrence(term, text) ==
    \E pos \in OccurrencesOf(term, text) :
       /\ SubSeq(text, pos + 1, pos + Len(term)) = term
       /\ ~InsideToken(text, pos, Len(term))

AliasesOf(brand) == Range(brand.terms)

\* C13: when the text holds a boundary-clean occurrence, in its own case, of
\* an alias of brand B and no occurrence of an alias of any other brand, the
\* Term Matcher returns B with a confidence above 0.
C13_SoleBrandIsDetected ==
    \A b \in DOMAIN matcher.alias_table :
       LET table == matcher.alias_table
       IN ( /\ \E t \in AliasesOf(table[b]) : CleanExactOccurrence(t, matcher.text)
            /\ \A o \in DOMAIN table \ {b} :
                  \A t \in AliasesOf(table[o]) : OccurrencesOf(t, matcher.text) = {} )
          => \A r \in Returned :
                r.brand_id = table[b].brand_id /\ r.confidence_score.num > 0

\* a table of two brands, a text with a clean "TD" and no alias of the other
\* brand, and a call that returned td_bank
C13_Witness ==
    /\ Len(matcher.alias_table) = 2
    /\ CleanExactOccurrence(s_TD, matcher.text)
    /\ OccurrencesOf(s_Citi, matcher.text) = {}
    /\ \E r \in Returned : r.brand_id = "td_bank" /\ r.confidence_score.num > 0

\* what one brand of the table scores on the text
PositionsOf(b) == BrandPositions(Lower(matcher.text), matcher.alias_table[b].terms, 1)

MatchedBrands == {b \in DOMAIN matcher.alias_table : Len(PositionsOf(b)) > 0}

ConfidencesDiffer ==
    \A a, b \in MatchedBrands :
       a # b => (\/ ConfGT(BrandConfidence(PositionsOf(a)), BrandConfidence(PositionsOf(b)))
                 \/ ConfGT(BrandConfidence(PositionsOf(b)), BrandConfidence(PositionsOf(a))))

\* C14: the result names at most one brand, one no other matched brand scores
\* higher than; its confidence, matched terms and match positions are that
\* brand's; with different confidences the same brand is returned when the
\* table is in the opposite order; no brand is named when none has a match.
C14_HighestConfidenceBrandWins ==
    \A i \in DOMAIN matcher.returned :
       LET r == matcher.returned[i].results
       IN /\ MatchedBrands = {} => r = NoDetection
          /\ MatchedBrands # {} =>
                \E b \in MatchedBrands :
                   /\ r.brand_id = matcher.alias_table[b].brand_id
                   /\ r.confidence_score = BrandConfidence(PositionsOf(b))
                   /\ r.match_positions = PositionsOf(b)
                   /\ Range(r.matched_terms)
                         = {PositionsOf(b)[k].term : k \in DOMAIN PositionsOf(b)}
                   /\ \A o \in MatchedBrands :
                         ~ConfGT(BrandConfidence(PositionsOf(o)), r.confidence_score)
          /\ ConfidencesDiffer =>
                DetectBrandMentions(Reverse(matcher.alias_table),
                                    matcher.returned[i].hash_seed, matcher.text) = r

\* two brands match with different confidences and the call returned the
\* brand that comes second in the table
C14_Witness ==
    /\ Cardinality(MatchedBrands) = 2
    /\ ConfidencesDiffer
    /\ \E r \in Returned : r.brand_id = matcher.alias_table[2].brand_id

\* Exact fractions, kept in lowest terms.
RECURSIVE GCD(_, _)
GCD(a, b) == IF b = 0 THEN a ELSE GCD(b, a % b)

Rat(n, d) == IF n = 0 THEN [num |-> 0, den |-> 1]
             ELSE [num |-> n \div GCD(n, d), den |-> d \div GCD(n, d)]

RatAdd(a, b) == Rat(a.num * b.den + b.num * a.den, a.den * b.den)

RatMul(a, b) == Rat(a.num * b.num, a.den * b.den)

RatMin(a, b) == IF a.num * b.den <= b.num * a.den THEN a ELSE b

RatEq(a, b) == a.num * b.den = b.num * a.den

\* the blend of the three parts, written out for one result on one text
BlendOf(r, text) ==
    LET occurrences == r.match_positions
        distinct == Range(r.matched_terms)
        quality(k) == IF InsideToken(text, occurrences[k].position, occurrences[k].length)
                      THEN Rat(7, 10) ELSE Rat(1, 1)
        RECURSIVE QualitySum(_)
        QualitySum(k) == IF k = 0 THEN Rat(0, 1) ELSE RatAdd(quality(k), QualitySum(k - 1))
        mean_quality == RatMul(QualitySum(Len(occurrences)), Rat(1, Len(occurrences)))
        mean_length == Rat(SumLen(distinct), Cardinality(distinct))
    IN RatAdd(RatAdd(RatMul(Rat(2, 5), RatMin(Rat(1, 1), Rat(Cardinality(distinct), 3))),
                     RatMul(Rat(2, 5), mean_quality)),
              RatMul(Rat(1, 5), RatMin(Rat(1, 1), RatMul(mean_length, Rat(1, 10)))))

\* C15: the confidence of the returned brand is 0.4 * min(1, distinct
\* matched terms / 3) + 0.4 * mean occurrence confidence (1.0 for a
\* boundary-clean occurrence, 0.7 otherwise) + 0.2 * min(1, mean length of the
\* distinct matched terms / 10), and every returned confidence_score lies in
\* [0, 1].
C15_ConfidenceBlend ==
    \A r \in Returned :
       /\ 0 <= r.confidence_score.num
       /\ r.confidence_score.num <= r.confidence_score.den
       /\ r.brand_id # "None" => RatEq(r.confidence_score, BlendOf(r, matcher.text))

\* a returned brand with more occurrences than distinct terms, one of them
\* inside a longer token and one boundary-clean
C15_Witness ==
    \E r \in Returned :
       /\ r.brand_id # "None"
       /\ Len(r.match_positions) > Cardinality(Range(r.matched_terms))
       /\ \E k \in DOMAIN r.match_positions :
             InsideToken(matcher.text, r.match_positions[k].position,
                         r.match_positions[k].length)
       /\ \E k \in DOMAIN r.match_positions :
             ~InsideToken(matcher.text, r.match_positions[k].position,
                          r.match_positions[k].length)

\* C16: two calls with the same text and alias table return identical
\* brand_id, matched_terms, match_positions and confidence_score, and no call
\* changes the alias table, the text, or any fetcher or cursor state.
C16_Deterministic ==
    /\ [](\A i, j \in DOMAIN matcher.returned :
             matcher.returned[i].results = matcher.returned[j].results)
    /\ [][/\ matcher'.alias_table = matcher.alias_table
          /\ matcher'.text = matcher.text
          /\ UNCHANGED <<now, tz, upstream, ingest_state, poll, runs, normalized, sink, jobs,
                 nlp, limiter, glassdoor>>]_vars

\* C17: the list a run of fetch_incremental_posts_and_comments returns never
\* holds two records with the same event_id, also when the searches for
\* several alias terms return the same submission or comment.
C17_NoDuplicatesWithinRun ==
    \A p \in Pollers :
       poll[p].pc = "return" =>
          \A i, j \in DOMAIN poll[p].all_messages :
             poll[p].all_messages[i].event_id = poll[p].all_messages[j].event_id
                => i = j

\* the upload failures and the upstream failures a run met
UploadErrors(j) == {i \in DOMAIN j.errors : j.errors[i].kind = "upload"}

UpstreamErrors(j) == {i \in DOMAIN j.errors : j.errors[i].kind # "upload"}

\* the dates of the partitions run job has in the bucket
DatesWrittenBy(job) ==
    {d \in Dates : \E i \in DOMAIN sink.uploads, k \in DOMAIN jobs[job].saved_files :
                      /\ sink.uploads[i].job = job
                      /\ sink.uploads[i].blob_path = jobs[job].saved_files[k]
                      /\ sink.uploads[i].blob_path[2] = d}

\* C18: two runs of a fetcher that write the same date partition never
\* upload to the same blob path, whenever they start (also within the same
\* second), so no run overwrites a file another run wrote.
C18_RunUniqueBlobPath ==
    \A a, b \in DOMAIN sink.uploads :
       sink.uploads[a].job # sink.uploads[b].job
          => sink.uploads[a].blob_path # sink.uploads[b].blob_path

\* C19: when the upload of one date partition fails in
\* save_to_gcs_partitioned, the failure is logged, the partitions uploaded
\* before it stay written, and every other partition of the batch is uploaded
\* by the time the run ends.
C19_PartitionFailureDoesNotBlockOthers ==
    \A job \in DOMAIN jobs :
       LET j == jobs[job]
       IN (j.fetcher \in {"reddit", "cfpb"} /\ j.pc = "done" /\ UploadErrors(j) # {})
          => /\ j.logged # << >>
             /\ \A k \in DOMAIN j.saved_files :
                   \E i \in DOMAIN sink.uploads :
                      sink.uploads[i] = [job |-> job, blob_path |-> j.saved_files[k]]
             /\ \A d \in Range(j.partitions) :
                   d \in DatesWrittenBy(job)
                      \/ \E i \in UploadErrors(j) : j.errors[i].at = d

\* C20: an upstream-API error met while fetching one brand is caught and
\* logged, the loop goes on to the remaining brands, and the run is not
\* aborted: it ends with every brand attempted and status 200.
C20_UpstreamErrorDoesNotAbortRun ==
    \A job \in DOMAIN jobs :
       LET j == jobs[job]
       IN (j.fetcher = "twitter" /\ j.pc = "done" /\ UpstreamErrors(j) # {})
          => /\ j.logged # << >>
             /\ j.attempted = TWITTER_BRANDS
             /\ j.status = 200

Begins(p) == poll[p].pc = "idle" /\ poll'[p].pc = "search"

\* C23: an invocation reads the cursor store once, when it begins and before
\* it scans anything; it calls update_state at most once, after the loop over
\* all terms has ended (whether or not term searches failed), exactly when
\* max_timestamp > since_timestamp; no other step of it adds a row.
C23_OneShotPerPoll ==
    [][\A p \in Pollers :
          /\ Begins(p) =>
                /\ <<poll'[p].last_cursor, poll'[p].last_tie_breaker>>
                      = get_state(ingest_state, source_key_of(poll'[p].subreddit_name),
                                  poll'[p].read_ok)
                /\ poll'[p].all_messages = << >>
                /\ poll'[p].term_idx = 1
          /\ (poll[p].pc # "idle" /\ poll'[p].pc # "idle") =>
                /\ poll'[p].last_cursor = poll[p].last_cursor
                /\ poll'[p].last_tie_breaker = poll[p].last_tie_breaker
                /\ poll'[p].since_timestamp = poll[p].since_timestamp
          /\ Finishes(p) =>
                /\ poll[p].term_idx > Len(SearchPlan)
                /\ poll'[p].wrote # "none"
                      <=> poll[p].max_timestamp > poll[p].since_timestamp
                /\ poll'[p].wrote = "ok" =>
                      /\ ingest_state \subseteq ingest_state'
                      /\ Cardinality(ingest_state') = Cardinality(ingest_state) + 1
                /\ poll'[p].wrote # "ok" => ingest_state' = ingest_state
          /\ (\A q \in Pollers : ~Finishes(q)) => ingest_state' = ingest_state]_vars

\* a poll in which a term search failed has ended its scan and written its
\* one watermark row
C23_Witness ==
    \E p \in Pollers :
       /\ poll[p].pc = "return"
       /\ poll[p].failed_terms # {}
       /\ poll[p].wrote = "ok"
       /\ \E row \in ingest_state : row.source = source_key_of(poll[p].subreddit_name)

\* message m is not below message o: event time first, then native id as a string
NotBelow(m, o) ==
    \/ m.ts_event.naive > o.ts_event.naive
    \/ (m.ts_event.naive = o.ts_event.naive /\ ~StrGT(o.reddit_id, m.reddit_id))

C25_NothingOlderThanSince ==
    \A p \in Pollers :
       poll[p].pc # "idle" =>
          /\ \A m \in Range(poll[p].all_messages) :
                m.ts_event.naive >= poll[p].since_timestamp
          /\ poll[p].max_timestamp >= poll[p].since_timestamp
          /\ poll[p].max_timestamp > poll[p].since_timestamp =>
                \E m \in Range(poll[p].all_messages) :
                   /\ m.ts_event.naive = poll[p].max_timestamp
                   /\ m.reddit_id = poll[p].max_tie_breaker
          /\ \/ poll[p].max_tie_breaker
                   = (IF poll[p].last_tie_breaker = NoneStr THEN << >>
                      ELSE poll[p].last_tie_breaker)
             \/ \E m \in Range(poll[p].all_messages) :
                   m.reddit_id = poll[p].max_tie_breaker

\* a poll has ended its scan with records, while a submission that names the
\* brand and is older than its since_timestamp exists upstream and is not
\* among them
C25_Witness ==
    \E p \in Pollers :
       /\ poll[p].pc = "return"
       /\ poll[p].all_messages # << >>
       /\ \E i \in DOMAIN upstream :
             /\ upstream[i].kind = "post"
             /\ upstream[i].subreddit = poll[p].subreddit_name
             /\ Accepted(upstream[i].text, "td_bank")
             /\ upstream[i].created_utc < poll[p].since_timestamp
             /\ \A m \in Range(poll[p].all_messages) :
                   m.reddit_id # upstream[i].id \/ m.reddit_type # "post"

\* the poll took its window from the cursor row it read
Incremental(p) ==
    /\ poll[p].pc # "idle"
    /\ poll[p].last_cursor # NoneIso
    /\ ~poll[p].initial_fetch
    /\ ~ExplicitSince(p)

\* C26: an incremental poll never appends a watermark whose cursor_timestamp
\* is lower than the cursor_timestamp it read when it began.
C26_CursorNeverMovesBack ==
    [][\A p \in Pollers :
          (Incremental(p) /\ Finishes(p) /\ poll'[p].wrote = "ok") =>
             \A row \in ingest_state' \ ingest_state :
                ParseIsoZTimestamp(row.cursor_iso)
                   >= ParseIsoZTimestamp(poll[p].last_cursor)]_vars

\* the items of the poll's subreddit in its window that name the brand and
\* that the poll did not emit
MissedBy(p) ==
    {i \in DOMAIN upstream :
        /\ upstream[i].subreddit = poll[p].subreddit_name
        /\ Accepted(upstream[i].text, "td_bank")
        /\ upstream[i].created_utc >= poll[p].since_timestamp
        /\ \A m \in Range(poll[p].all_messages) :
              m.event_id # generate_event_id(upstream[i].kind, upstream[i].id)}

\* C27: when a poll in which the search for one term failed, and others
\* succeeded, has advanced the watermark, every qualifying item of its window
\* that it did not emit is still inside the window of the incremental poll
\* that follows it, so that this poll can emit it.
C27_NothingSkippedAfterFailedSearch ==
    ( /\ poll[1].pc = "return"
      /\ poll[1].failed_terms # {}
      /\ poll[1].failed_terms # DOMAIN SearchPlan
      /\ poll[1].wrote = "ok"
      /\ Incremental(2) )
    => \A i \in MissedBy(1) : upstream[i].created_utc >= poll[2].since_timestamp

\* C29: the cursor_iso a poll writes for max_timestamp, parsed as the next
\* poll parses it, gives max_timestamp again, in every local time zone, so
\* that the next poll's since_timestamp is max_timestamp minus the overlap.
C29_WatermarkRoundTrip ==
    [][\A p \in Pollers :
          (Finishes(p) /\ poll'[p].wrote = "ok") =>
             \A row \in ingest_state' \ ingest_state :
                /\ ParseIsoZTimestamp(row.cursor_iso) = poll[p].max_timestamp
                /\ ComputeSince(NoneInt, FALSE, row.cursor_iso, now, tz)
                      = poll[p].max_timestamp - overlap_seconds]_vars

\* the poller's acceptance check, on a result of the Term Matcher
AcceptedFor(r, brand_id) ==
    r.brand_id = brand_id /\ AboveThreshold(r.confidence_score)

AnalysisFailed(i) ==
    \/ nlp.import_error # ""
    \/ /\ Len(Strip(clean_text(RecordText(nlp.messages[i])))) >= 10
       /\ nlp.responses[i].kind \in {"raises", "no json"}

\* C21: enrichment returns one output record per input record in the same
\* order, each a copy of its input with the NLP fields added, and every record
\* whose analysis failed carries the default result (sentiment 0, severity 0,
\* no topics, confidence 0) together with the error string in nlp_error.
C21_ServiceErrorsNeverBlockEmission ==
    /\ Len(nlp.returned) = Len(nlp.messages)
    /\ \A i \in 1..Len(nlp.returned) :
          /\ \A k \in DOMAIN nlp.messages[i] : nlp.returned[i][k] = nlp.messages[i][k]
          /\ AnalysisFailed(i) =>
                /\ nlp.returned[i].sentiment = DefaultAnalysis.sentiment
                /\ nlp.returned[i].severity = DefaultAnalysis.severity
                /\ nlp.returned[i].topics = << >>
                /\ nlp.returned[i].nlp_confidence = DefaultAnalysis.confidence
                /\ "nlp_error" \in DOMAIN nlp.returned[i]
                /\ nlp.returned[i].nlp_error # ""

\* C22: between any two consecutive requests issued through _rate_limit at
\* least REQUEST_DELAY elapses.
C22_RequestsAreSpaced ==
    \A i \in 2..Len(limiter.issued) :
        limiter.issued[i] - limiter.issued[i - 1] >= REQUEST_DELAY

\* C28: every call of get_company_reviews returns, whatever the upstream
\* answers to its page requests.
C28_ReviewLoopTerminates ==
    (glassdoor.pc = "loop") ~> (glassdoor.pc = "returned")

=============================================================================
